---- MODULE Spec2Model ----
(***************************************************************************)
(* Model of python/scripts/fmt.py: the runner that walks ./packages and    *)
(* runs "poetry run fmt" in every sub-directory.                           *)
(*                                                                         *)
(* A path is the sequence of its components.  The directory ./packages is  *)
(* the sequence fs of its entries in the order the operating system lists  *)
(* them; a child process is a record of procs.                             *)
(***************************************************************************)
EXTENDS FiniteSets, Integers, Sequences

\* ---------------------------------------------------------------- bounds
MaxEntries == 3
MaxNames == 4
MaxExitCode == 2

EntryNames == <<"ai", "state", "docs", "tools", "extra", "misc">>
Names == {EntryNames[i] : i \in 1..MaxNames}
Kinds == {"dir", "file"}
ExitCodes == 0..MaxExitCode

\* ------------------------------------------------------------ the program
VARIABLES fs, it, idx, e, pc, procs, stdout, exception, oserrors

vars == <<fs, it, idx, e, pc, procs, stdout, exception, oserrors>>

\* Path("./packages"): pathlib drops the leading "." component
Packages == <<"packages">>

\* the working directory of the process that runs fmt()
Getcwd == <<"/", "repo", "python">>

\* ["poetry", "run", "fmt"]
Command == <<"poetry", "run", "fmt">>

\* Popen.returncode of a child that has not exited (Python's None); exit
\* codes are never negative here
None == -1

NoException == [type |-> "none"]

\* Path.glob("*"): one path parent/name per entry, in listing order
glob_skip_first(parent, listing) ==
    [i \in 1..(IF Len(listing) = 0 THEN 0 ELSE Len(listing) - 1) |->
        parent \o <<listing[i + 1].name>>]

glob(parent, listing) ==
    [i \in 1..Len(listing) |-> parent \o <<listing[i].name>>]

\* Path.name: the last component
name(p) == p[Len(p)]

\* Path.parent
parent_of(p) == SubSeq(p, 1, Len(p) - 1)

\* Path.is_dir(): looks the path up in the file system
is_dir_always(p) == TRUE

is_dir(p) ==
    /\ parent_of(p) = Packages
    /\ \E i \in DOMAIN fs : fs[i].name = name(p) /\ fs[i].kind = "dir"

\* Path.absolute(): a relative path is anchored at the working directory
absolute(p) == IF Len(p) > 0 /\ p[1] = "/" THEN p ELSE Getcwd \o p

\* the cwd= argument of subprocess.run
PopenCwd_parent(p) == absolute(parent_of(p))

PopenCwd(p) == absolute(p)

\* "------ " + e.name + " ------"
header_parent(p) == <<"------ ", name(parent_of(p)), " ------">>

header(p) == <<"------ ", name(p), " ------">>

\* CompletedProcess.check_returncode(): "if self.returncode: raise ..."
Raises_never(rc) == FALSE

Raises_always(rc) == TRUE

Raises(rc) == rc # None /\ rc # 0

\* CalledProcessError(returncode, args)
CalledProcessError_one(rc, args) ==
    [type |-> "CalledProcessError", returncode |-> 1, cmd |-> args]

CalledProcessError(rc, args) ==
    [type |-> "CalledProcessError", returncode |-> rc, cmd |-> args]

\* the OSError Popen raises when the command cannot be started
OSError == [type |-> "OSError"]

\* the listings of ./packages: distinct names, any order, files and dirs
Listings ==
    UNION {{l \in [1..n -> [name : Names, kind : Kinds]] :
              \A i, j \in 1..n : i # j => l[i].name # l[j].name} :
           n \in 0..MaxEntries}

Init ==
    /\ fs \in Listings
    /\ it = <<>>
    /\ idx = 0
    /\ e = <<>>
    /\ pc = "start"
    /\ procs = <<>>
    /\ stdout = <<>>
    /\ exception = NoException
    /\ oserrors = <<>>

\* line 11: Path("./packages").glob("*")
Glob ==
    /\ pc = "start"
    /\ it' = glob(Packages, fs)
    /\ pc' = "for"
    /\ UNCHANGED <<fs, idx, e, procs, stdout, exception, oserrors>>

\* line 11: the for loop takes the next entry
ForNext ==
    /\ pc = "for"
    /\ idx < Len(it)
    /\ idx' = idx + 1
    /\ e' = it[idx + 1]
    /\ pc' = "is_dir"
    /\ UNCHANGED <<fs, it, procs, stdout, exception, oserrors>>

\* line 11: the iterator is exhausted, fmt() returns
ForEnd ==
    /\ pc = "for"
    /\ idx = Len(it)
    /\ pc' = "returned"
    /\ UNCHANGED <<fs, it, idx, e, procs, stdout, exception, oserrors>>

\* line 12: if e.is_dir()
IsDir_break ==
    /\ pc = "is_dir"
    /\ pc' = IF is_dir(e) THEN "print" ELSE "returned"
    /\ UNCHANGED <<fs, it, idx, e, procs, stdout, exception, oserrors>>

IsDir ==
    /\ pc = "is_dir"
    /\ pc' = IF is_dir(e) THEN "print" ELSE "for"
    /\ UNCHANGED <<fs, it, idx, e, procs, stdout, exception, oserrors>>

\* line 13: print the header
PrintHeader ==
    /\ pc = "print"
    /\ stdout' = Append(stdout, header(e))
    /\ pc' = "run"
    /\ UNCHANGED <<fs, it, idx, e, procs, exception, oserrors>>

\* line 14: subprocess.run starts the child and then waits for it
Popen_nowait ==
    /\ pc = "run"
    /\ procs' = Append(procs, [args |-> Command, cwd |-> PopenCwd(e),
                               status |-> "running", returncode |-> None])
    /\ pc' = "for"
    /\ UNCHANGED <<fs, it, idx, e, stdout, exception, oserrors>>

Popen ==
    /\ pc = "run"
    /\ procs' = Append(procs, [args |-> Command, cwd |-> PopenCwd(e),
                               status |-> "running", returncode |-> None])
    /\ pc' = "wait"
    /\ UNCHANGED <<fs, it, idx, e, stdout, exception, oserrors>>

\* line 14: subprocess.run cannot start the command (poetry not on PATH,
\* the directory vanished, ...): Popen raises OSError and nothing catches it
PopenFails ==
    /\ pc = "run"
    /\ oserrors' = Append(oserrors, PopenCwd(e))
    /\ exception' = OSError
    /\ pc' = "raised"
    /\ UNCHANGED <<fs, it, idx, e, procs, stdout>>

\* the environment: a running child exits with some exit code
ChildExit ==
    \E i \in DOMAIN procs : \E rc \in ExitCodes :
        /\ procs[i].status = "running"
        /\ procs' = [procs EXCEPT ![i] = [@ EXCEPT !.status = "exited",
                                                   !.returncode = rc]]
        /\ UNCHANGED <<fs, it, idx, e, pc, stdout, exception, oserrors>>

\* line 14: subprocess.run returns once the child it started has exited
Wait ==
    /\ pc = "wait"
    /\ procs[Len(procs)].status = "exited"
    /\ pc' = "check_returncode"
    /\ UNCHANGED <<fs, it, idx, e, procs, stdout, exception, oserrors>>

\* line 14: .check_returncode()
CheckReturncode ==
    /\ pc = "check_returncode"
    /\ IF Raises(procs[Len(procs)].returncode)
       THEN /\ exception' = CalledProcessError(procs[Len(procs)].returncode,
                                               procs[Len(procs)].args)
            /\ pc' = "raised"
       ELSE /\ pc' = "for"
            /\ UNCHANGED exception
    /\ UNCHANGED <<fs, it, idx, e, procs, stdout, oserrors>>

Next ==
    \/ Glob
    \/ ForNext
    \/ ForEnd
    \/ IsDir
    \/ PrintHeader
    \/ Popen
    \/ PopenFails
    \/ ChildExit
    \/ Wait
    \/ CheckReturncode

Spec == Init /\ [][Next]_vars

\* The interpreter always takes its next step, and every child process
\* terminates.
FairSpec == Init /\ [][Next]_vars /\ WF_vars(Next)

\* ------------------------------------------------- vocabulary of claims
\* the sub-directories of ./packages, in listing order, read off fs
DirEntries == SelectSeq(fs, LAMBDA x : x.kind = "dir")

NumDirs == Len(DirEntries)

\* the absolute path of the entry called n
ExpectedCwd(n) == <<"/", "repo", "python", "packages", n>>

ExpectedHeader(n) == <<"------ ", n, " ------">>

Exited(p) == p.status = "exited"

ExitedZero(p) == Exited(p) /\ p.returncode = 0

Failed(p) == Exited(p) /\ p.returncode # 0

Running == {i \in DOMAIN procs : procs[i].status = "running"}

SomeFailed == \E i \in DOMAIN procs : Failed(procs[i])

FirstFailed == CHOOSE i \in DOMAIN procs :
    Failed(procs[i]) /\ \A j \in 1..(i - 1) : ~Failed(procs[j])

Terminated == pc \in {"returned", "raised"}

\* the i-th child started runs in the i-th sub-directory
InListingOrder ==
    /\ Len(procs) <= NumDirs
    /\ \A i \in DOMAIN procs : procs[i].cwd = ExpectedCwd(DirEntries[i].name)

\* C1: if the invocation in B is the first to exit non-zero, every
\* sub-directory listed before B was invoked and exited zero, B was invoked,
\* and no invocation is started for a sub-directory listed after B.
C1_FirstFailureStops ==
    \A b \in DOMAIN procs :
        (Failed(procs[b]) /\ \A j \in 1..(b - 1) : ~Failed(procs[j])) =>
            /\ b <= NumDirs
            /\ \A j \in 1..(b - 1) :
                   /\ procs[j].cwd = ExpectedCwd(DirEntries[j].name)
                   /\ ExitedZero(procs[j])
            /\ procs[b].cwd = ExpectedCwd(DirEntries[b].name)
            /\ Len(procs) = b

C1_Witness ==
    /\ NumDirs = 3
    /\ Len(procs) = 2
    /\ ExitedZero(procs[1])
    /\ Failed(procs[2])
    /\ pc = "raised"

C2_Safety ==
    SomeFailed =>
        /\ pc # "returned"
        /\ pc = "raised" =>
               /\ exception.type = "CalledProcessError"
               /\ exception.returncode = procs[FirstFailed].returncode
               /\ exception.cmd = Command

\* C2: if an invocation exits non-zero, fmt() ends by raising (it never
\* returns normally) and the exception carries the exit code of the first
\* failing invocation.
C2_FailureCarriesExitCode == [](C2_Safety) /\ (SomeFailed ~> pc = "raised")

C2_Witness ==
    /\ pc = "raised"
    /\ Len(procs) = 2
    /\ ExitedZero(procs[1])
    /\ procs[2].status = "exited"
    /\ procs[2].returncode = 2
    /\ exception.type = "CalledProcessError"

NoSubdirs == NumDirs = 0

C3_Safety == NoSubdirs => (procs = <<>> /\ oserrors = <<>> /\ pc # "raised")

\* C3: when ./packages has no sub-directory, fmt() returns normally and
\* starts no formatter invocation.
C3_NoSubdirsSucceeds == [](C3_Safety) /\ (NoSubdirs ~> pc = "returned")

C3_Witness ==
    /\ NoSubdirs
    /\ Len(fs) = 2
    /\ pc = "returned"
    /\ procs = <<>>

\* C4: at most one child runs at a time, and a child is started only after
\* every child started before it has exited.
C4_Sequential ==
    /\ Cardinality(Running) <= 1
    /\ \A i \in 1..(Len(procs) - 1) : Exited(procs[i])

C4_Witness ==
    /\ Len(procs) = 2
    /\ Exited(procs[1])
    /\ procs[2].status = "running"

NoRetry ==
    /\ \A i, j \in DOMAIN procs : i # j => procs[i].cwd # procs[j].cwd
    /\ \A i \in DOMAIN procs : Failed(procs[i]) => i = Len(procs)
    /\ Len(oserrors) <= 1
    /\ \A i \in DOMAIN procs : \A j \in DOMAIN oserrors :
           procs[i].cwd # oserrors[j]
    /\ (SomeFailed /\ pc # "wait") => pc \in {"check_returncode", "raised"}
    /\ oserrors # <<>> => pc = "raised"

\* C6 as stated: fmt() fails only because a formatter command exited
\* non-zero, and a failed invocation is never retried.
C6_Original ==
    /\ pc = "raised" => SomeFailed
    /\ NoRetry

\* C6 amended: fmt() fails only because a formatter command exited non-zero
\* (CalledProcessError) or because the command could not be started
\* (OSError); in neither case is the invocation retried or the run resumed.
C6_TwoErrorKinds ==
    /\ pc = "raised" =>
           \/ /\ exception.type = "CalledProcessError"
              /\ procs # <<>>
              /\ Failed(procs[Len(procs)])
              /\ oserrors = <<>>
           \/ /\ exception.type = "OSError"
              /\ oserrors # <<>>
              /\ ~SomeFailed
    /\ NoRetry

C6_Witness ==
    /\ pc = "raised"
    /\ exception.type = "OSError"
    /\ Len(procs) = 1
    /\ ExitedZero(procs[1])

\* C7: every invocation runs "poetry run fmt" with the sub-directory being
\* processed as its working directory: the i-th invocation runs in the i-th
\* listed sub-directory, never in ./packages or in another sub-directory.
C7_CwdIsSubdir ==
    /\ InListingOrder
    /\ \A i \in DOMAIN procs : procs[i].args = <<"poetry", "run", "fmt">>
    /\ \A i \in DOMAIN oserrors :
           oserrors[i] = ExpectedCwd(DirEntries[Len(procs) + 1].name)

C7_Witness ==
    /\ Len(fs) = 3
    /\ fs[1].kind = "file"
    /\ Len(procs) = 2
    /\ procs[2].cwd = ExpectedCwd(fs[3].name)

AtMostOnce ==
    \A i, j \in DOMAIN procs : i # j => procs[i].cwd # procs[j].cwd

ExactlyOnce ==
    /\ Len(procs) = NumDirs
    /\ \A i \in DOMAIN procs : procs[i].cwd = ExpectedCwd(DirEntries[i].name)

AllExitedZero == \A i \in DOMAIN procs : ExitedZero(procs[i])

C8_Safety ==
    /\ AtMostOnce
    /\ (Terminated /\ AllExitedZero /\ oserrors = <<>>) =>
           (pc = "returned" /\ ExactlyOnce)
    /\ pc = "returned" => (AllExitedZero /\ ExactlyOnce)

IsDirName(n) == \E k \in DOMAIN fs : fs[k].name = n /\ fs[k].kind = "dir"

\* C9: no invocation is ever started for an entry that is not a directory,
\* such an entry never fails the run, and the directories listed after it
\* are still processed.
C9_NonDirsSkipped ==
    /\ \A i \in DOMAIN procs :
           \E k \in DOMAIN fs :
               fs[k].kind = "dir" /\ procs[i].cwd = ExpectedCwd(fs[k].name)
    /\ \A i \in DOMAIN oserrors :
           \E k \in DOMAIN fs :
               fs[k].kind = "dir" /\ oserrors[i] = ExpectedCwd(fs[k].name)
    /\ pc = "raised" => (e # <<>> /\ IsDirName(e[Len(e)]))
    /\ pc = "returned" =>
           \A k \in DOMAIN fs :
               fs[k].kind = "dir" =>
                   \E i \in DOMAIN procs : procs[i].cwd = ExpectedCwd(fs[k].name)

C9_Witness ==
    /\ pc = "returned"
    /\ Len(fs) = 3
    /\ fs[1].kind = "dir"
    /\ fs[2].kind = "file"
    /\ fs[3].kind = "dir"
    /\ Len(procs) = 2

HeadersNameSubdirs ==
    /\ Len(stdout) <= NumDirs
    /\ \A i \in DOMAIN stdout : stdout[i] = ExpectedHeader(DirEntries[i].name)
    /\ \A i \in DOMAIN procs :
           /\ i <= Len(stdout)
           /\ procs[i].cwd = ExpectedCwd(stdout[i][2])

\* C10 as stated: in every reachable state the number of headers printed
\* equals the number of invocations started, and every header names an
\* invoked sub-directory.
C10_Original ==
    /\ Len(stdout) = Len(procs)
    /\ HeadersNameSubdirs

\* C10 amended: the header naming a sub-directory is printed immediately
\* before its invocation is attempted, so the number of headers printed
\* equals the number of invocations started, plus one exactly while the
\* invocation announced by the last header has not yet been started or
\* after it failed to start; the header of a failing sub-directory is
\* printed, and none is printed for a sub-directory whose invocation is
\* never attempted.
C10_HeaderPerAttempt ==
    /\ Len(stdout) =
           Len(procs) + (IF pc = "run" \/ oserrors # <<>> THEN 1 ELSE 0)
    /\ HeadersNameSubdirs
    /\ \A i \in DOMAIN oserrors :
           oserrors[i] = ExpectedCwd(stdout[Len(stdout)][2])

C10_Witness ==
    /\ pc = "raised"
    /\ Len(procs) = 2
    /\ Failed(procs[2])
    /\ stdout = <<ExpectedHeader(DirEntries[1].name),
                  ExpectedHeader(DirEntries[2].name)>>
    /\ NumDirs = 3
====
